---- MODULE Spec2Model ----
(***************************************************************************)
(* A model of the bit_vector crate: the packed bit storage (src/lib.rs),   *)
(* the two-level rank index (src/rank.rs) and the select index             *)
(* (src/select.rs, src/select_table.rs).                                   *)
(*                                                                         *)
(* A BitVector is the five fields data, len, rank_accelerator,             *)
(* select_accelerator_0 and select_accelerator_1.  `input` remembers the   *)
(* string the vector was loaded from and `result` the most recent call     *)
(* and its outcome; a Rust panic is the outcome Panic.                     *)
(*                                                                         *)
(* The vector is driven by the command-line program (src/main.rs), whose   *)
(* process is args_len (the length of args()), stderr (the lines written   *)
(* to standard error), files (the paths opened) and exit_status (None      *)
(* while it runs).                                                         *)
(***************************************************************************)
EXTENDS Integers, Sequences, FiniteSets, TLC

\* Unit::BITS.  The crate selects Unit by a feature; this is Unit = u8.
UNIT_SIZE_BITS == 8

\* select_with_table is called on every word of this many bits.
MaxWordBits == 8
\* Every 0/1 string up to this length is loaded.
MaxLen == 4
\* Longer inputs repeat a pattern of at most this many characters.
MaxPeriod == 3
\* count_ones is called on ranges of at most this many bits.
MaxSpan == 17
\* Queries are made at the indices up to this one and at the last ones.
MaxIndex == 20

\* The lengths of the longer inputs: one word exactly; two words and one bit
\* (the last rank super block has one block); a partial third word (the last
\* rank block has one bit); the shortest length whose select zeros_per_block
\* does not divide zeros_per_super_block; and the shortest length whose rank
\* super blocks span whole words.
LongLens == {8, 17, 19, 32, 256}

\* args().len() of the runs: the program's name alone, with the input path
\* only, and with both paths.
ArgLens == {1, 2, 3}

VARIABLES input, data, len, rank_accelerator, select_accelerator_0,
          select_accelerator_1, result, args_len, stderr, exit_status, files

vars == <<input, data, len, rank_accelerator, select_accelerator_0,
          select_accelerator_1, result, args_len, stderr, exit_status, files>>

\* The process of the command-line program.
process == <<args_len, stderr, exit_status, files>>

----------------------------------------------------------------------------
\* Outcomes of a call, and Option<T>.

Ok(v) == [ok |-> TRUE, val |-> v]
Panic == [ok |-> FALSE, val |-> 0]

None == <<>>
Some(x) == <<x>>

----------------------------------------------------------------------------
\* Machine arithmetic on Unit and usize values.

Min(a, b) == IF a < b THEN a ELSE b
Max(a, b) == IF a > b THEN a ELSE b

Pow2(k) == 2 ^ k

\* x >> k
Shr(x, k) == x \div Pow2(k)

\* x << k on a Unit: the bits shifted past the top are dropped.
Shl(x, k) == (x * Pow2(k)) % Pow2(UNIT_SIZE_BITS)

RECURSIVE BitOr(_, _)
BitOr(a, b) ==
    IF a = 0 THEN b
    ELSE IF b = 0 THEN a
    ELSE (IF a % 2 = 1 \/ b % 2 = 1 THEN 1 ELSE 0) + 2 * BitOr(a \div 2, b \div 2)

RECURSIVE BitAnd(_, _)
BitAnd(a, b) ==
    IF a = 0 \/ b = 0 THEN 0
    ELSE (IF a % 2 = 1 /\ b % 2 = 1 THEN 1 ELSE 0) + 2 * BitAnd(a \div 2, b \div 2)

\* The integer method count_ones.
RECURSIVE PopCount(_)
PopCount(x) == IF x = 0 THEN 0 ELSE (x % 2) + PopCount(x \div 2)

\* usize::ilog2, for n >= 1 (it panics on 0).
RECURSIVE ILog2(_)
ILog2(n) == IF n < 2 THEN 0 ELSE 1 + ILog2(n \div 2)

\* usize::div_ceil.
DivCeil(a, b) == (a + b - 1) \div b

\* (x as f64).sqrt() as usize.
ISqrt(x) == CHOOSE r \in 0..x : r * r <= x /\ (r + 1) * (r + 1) > x

\* `for i in lo..hi { st = Body(st, i) }`: the loop state after the last
\* iteration.  The range is run in two halves, the first evaluated before the
\* second starts, which keeps the evaluation shallow on long ranges.
RECURSIVE ForLoop(_, _, _, _)
ForLoop(Body(_, _), st, lo, hi) ==
    IF hi <= lo THEN st
    ELSE IF hi = lo + 1 THEN Body(st, lo)
    ELSE LET mid == lo + (hi - lo) \div 2
             s1 == ForLoop(Body, st, lo, mid)
         IN IF s1 = s1 THEN ForLoop(Body, s1, mid, hi) ELSE st

----------------------------------------------------------------------------
\* BitVector (src/lib.rs).  bv is the record [data, len].

\* BitVector::load_from_string: one iteration of the loop over the
\* characters.  st.tmp is the word being filled, i the character's index.
LoadStep(chars, st, i) ==
    LET flush == i # 0 /\ i % UNIT_SIZE_BITS = 0
        words1 == IF flush THEN Append(st.data, st.tmp) ELSE st.data
        tmp1 == IF flush THEN 0 ELSE st.tmp
        b == chars[i + 1] = "1"
        tmp2 == IF b THEN BitOr(tmp1, Shl(1, i % UNIT_SIZE_BITS)) ELSE tmp1
    IN [tmp |-> tmp2, data |-> words1]

\* BitVector::load_from_string: the loop, then the push of the last word.
LoadFromString(chars) ==
    LET st == ForLoop(LAMBDA s, i : LoadStep(chars, s, i),
                      [tmp |-> 0, data |-> <<>>], 0, Len(chars))
    IN [data |-> Append(st.data, st.tmp), len |-> Len(chars)]

\* access reading the word from its most significant bit down.
AccessMsbFirst(bv, index) ==
    LET vec_index == index \div UNIT_SIZE_BITS
        unit_index == index % UNIT_SIZE_BITS
    IN IF vec_index >= Len(bv.data) THEN Panic
       ELSE Ok(Shr(bv.data[vec_index + 1], UNIT_SIZE_BITS - 1 - unit_index) % 2)

\* BitVector::access.  Indexing data past its end panics.
Access(bv, index) ==
    LET vec_index == index \div UNIT_SIZE_BITS
        unit_index == index % UNIT_SIZE_BITS
    IN IF vec_index >= Len(bv.data) THEN Panic
       ELSE Ok(Shr(bv.data[vec_index + 1], unit_index) % 2)

\* access_block without the part of the window in the next word.
AccessBlockLowerOnly(bv, index) ==
    LET vec_index == index \div UNIT_SIZE_BITS
        shift == index % UNIT_SIZE_BITS
    IN IF vec_index >= Len(bv.data) THEN Panic
       ELSE Ok(Shr(bv.data[vec_index + 1], shift))

\* BitVector::access_block.
AccessBlock(bv, index) ==
    LET vec_index == index \div UNIT_SIZE_BITS
        shift == index % UNIT_SIZE_BITS
    IN IF vec_index >= Len(bv.data) THEN Panic
       ELSE LET lower == Shr(bv.data[vec_index + 1], shift)
            IN IF vec_index = Len(bv.data) - 1 \/ shift = 0 THEN Ok(lower)
               ELSE Ok(BitOr(lower,
                             Shl(bv.data[vec_index + 2], UNIT_SIZE_BITS - shift)))

\* BitVector::count_ones(lo..hi).  An empty range leaves `blocks` empty, and
\* blocks.len() - 1 / blocks.last().unwrap() panics.
CountOnes(bv, lo, hi) ==
    LET nblocks == IF hi <= lo THEN 0 ELSE DivCeil(hi - lo, UNIT_SIZE_BITS)
        blocks == [k \in 1..nblocks |->
                      AccessBlock(bv, lo + (k - 1) * UNIT_SIZE_BITS)]
    IN IF nblocks = 0 \/ \E k \in 1..nblocks : ~blocks[k].ok THEN Panic
       ELSE LET mask == IF (hi - lo) % UNIT_SIZE_BITS = 0 THEN 0
                        ELSE Shl(1, (hi - lo) % UNIT_SIZE_BITS) - 1
                remaining == PopCount(BitAnd(blocks[nblocks].val, mask))
            IN Ok(ForLoop(LAMBDA r, k : r + PopCount(blocks[k].val),
                          0, 1, nblocks) + remaining)

----------------------------------------------------------------------------
\* RankAccelerator (src/rank.rs).

\* The blocks of a super block, each holding the count of its own bits only.
RankInitBlocksPerBlock(bv, block_size, super_block_size, blocks, current_super_block) ==
    LET sb_start == current_super_block * super_block_size
        body(bl, current_block) ==
            LET block_start == sb_start + current_block * block_size
                block_end == Min(block_start + block_size, bv.len)
            IN IF block_start >= bv.len THEN bl
               ELSE Append(bl, CountOnes(bv, block_start, block_end).val)
    IN ForLoop(body, blocks, 0, block_size)

\* RankAccelerator::init, the second loop: the blocks of super block
\* current_super_block, pushed onto `blocks`.
RankInitBlocksStep(bv, block_size, super_block_size, blocks, current_super_block) ==
    LET sb_start == current_super_block * super_block_size
        first == CountOnes(bv, sb_start, Min(sb_start + block_size, bv.len)).val
        inner(st, current_block) ==
            LET block_start == sb_start + current_block * block_size
                block_end == Min(sb_start + (current_block + 1) * block_size, bv.len)
            IN IF st.broke THEN st
               ELSE IF block_start >= bv.len THEN [st EXCEPT !.broke = TRUE]
               ELSE LET block ==
                            st.blocks[block_size * current_super_block + current_block]
                            + CountOnes(bv, block_start, block_end).val
                    IN [st EXCEPT !.blocks = Append(st.blocks, block % 65536)]
    IN ForLoop(inner, [blocks |-> Append(blocks, first % 65536), broke |-> FALSE],
               1, block_size).blocks

\* RankAccelerator::init, for a vector of len >= 1 (ilog2 panics on 0).
RankInit(bv) ==
    LET block_size == Max(ILog2(bv.len) \div 2, 1)
        super_block_size == block_size * block_size
        n_super == DivCeil(bv.len, super_block_size)
        super_blocks ==
            ForLoop(LAMBDA sb, c :
                        Append(sb, sb[c] + CountOnes(bv, c * super_block_size,
                                   Min((c + 1) * super_block_size, bv.len)).val),
                    <<CountOnes(bv, 0, super_block_size).val>>, 1, n_super)
        blocks ==
            ForLoop(LAMBDA bl, c :
                        RankInitBlocksStep(bv, block_size, super_block_size, bl, c),
                    <<>>, 0, n_super)
    IN [blocks |-> blocks, super_blocks |-> super_blocks,
        block_size |-> block_size, super_block_size |-> super_block_size]

\* `block as u32`: a Unit of at most 32 bits widens unchanged, a wider one
\* keeps its low 32 bits.
AsU32(x) == IF UNIT_SIZE_BITS <= 32 THEN x ELSE x % (65536 * 65536)

\* RankAccelerator::get_ones on a u32.
GetOnes(block, index) == PopCount(BitAnd(block, Pow2(index) - 1))

\* RankAccelerator::rank.  blocks[block - 1] and access_block panic past the
\* end; index - result panics (debug build) if it would be negative.
RankAcc(acc, bit, index, bv) ==
    LET super_block == index \div acc.super_block_size
        block == index \div acc.block_size
        block_start == (index \div acc.block_size) * acc.block_size
        result1 == IF super_block >= 1 /\ super_block <= Len(acc.super_blocks)
                   THEN acc.super_blocks[super_block] ELSE 0
        first_of_super == block % (acc.super_block_size \div acc.block_size) = 0
        word == AccessBlock(bv, block_start)
    IN IF ~first_of_super /\ block - 1 >= Len(acc.blocks) THEN Panic
       ELSE IF ~word.ok THEN Panic
       ELSE LET result2 == IF first_of_super THEN 0 ELSE acc.blocks[block]
                result3 == GetOnes(AsU32(word.val), index % acc.block_size)
                res == result1 + result2 + result3
            IN IF bit THEN Ok(res)
               ELSE IF res > index THEN Panic ELSE Ok(index - res)

\* rank answering 0 instead of panicking when the index is not built.
RankWithoutExpect(racc, bit, index, bv) ==
    IF racc = None THEN Ok(0) ELSE RankAcc(racc[1], bit, index, bv)

\* BitVector::rank: expect() on the Option, then RankAccelerator::rank.
Rank(racc, bit, index, bv) ==
    IF racc = None THEN Panic ELSE RankAcc(racc[1], bit, index, bv)

----------------------------------------------------------------------------
\* select_with_table (src/select_table.rs) and SelectAccelerator<BIT>
\* (src/select.rs).

\* The number of bit positions select_with_table scans.
SELECT_SCAN_BITS == 64

\* A scan that counts the matching bits from 1: it takes `index` as a 1-based
\* rank.
SelectWithTableOneBased(bit, word, index) ==
    LET body(st, i) ==
            IF st.ret # None THEN st
            ELSE IF st.data % 2 = (IF bit THEN 1 ELSE 0)
                 THEN IF st.zero_counter = index
                      THEN [st EXCEPT !.ret = Some(i)]
                      ELSE [st EXCEPT !.zero_counter = st.zero_counter + 1,
                                      !.data = st.data \div 2]
                 ELSE [st EXCEPT !.data = st.data \div 2]
    IN ForLoop(body, [data |-> word, zero_counter |-> 1, ret |-> None],
               0, SELECT_SCAN_BITS).ret

\* select_with_table: Some(i) for the position of the (index+1)-th bit of
\* `word` equal to `bit`, None when the scan ends without it.
SelectWithTable(bit, word, index) ==
    LET body(st, i) ==
            IF st.ret # None THEN st
            ELSE IF st.data % 2 = (IF bit THEN 1 ELSE 0)
                 THEN IF st.zero_counter = index
                      THEN [st EXCEPT !.ret = Some(i)]
                      ELSE [st EXCEPT !.zero_counter = st.zero_counter + 1,
                                      !.data = st.data \div 2]
                 ELSE [st EXCEPT !.data = st.data \div 2]
    IN ForLoop(body, [data |-> word, zero_counter |-> 0, ret |-> None],
               0, SELECT_SCAN_BITS).ret

\* 1 when the bit at j is the one the accelerator counts, else 0.
CountedBit(BIT, bv, j) ==
    IF BIT THEN Access(bv, j).val ELSE 1 - Access(bv, j).val

\* SelectAccelerator::calc_select_table(lo..hi).
CalcSelectTable(BIT, bv, lo, hi) ==
    ForLoop(LAMBDA table, j :
                IF Access(bv, j).val = (IF BIT THEN 1 ELSE 0)
                THEN Append(table, j) ELSE table,
            <<>>, lo, hi)

\* SelectAccelerator::create_large_super_block.
CreateLargeSuperBlock(BIT, bv, lo, hi) ==
    [kind |-> "LargeSuperBlock", select_table |-> CalcSelectTable(BIT, bv, lo, hi)]

\* Blocks that each end after zeros_per_block + 1 counted bits.
CreateSmallSuperBlockRangesOneMore(acc, BIT, bv, lo, hi) ==
    LET body(st, j) ==
            LET zeroes == st.zeroes + CountedBit(BIT, bv, j)
            IN IF zeroes # acc.zeros_per_block + 1 /\ j # hi - 1
               THEN [st EXCEPT !.zeroes = zeroes]
               ELSE [zeroes |-> 0, current_block_offset |-> j + 1,
                     ranges |-> Append(st.ranges,
                                       <<st.current_block_offset, j + 1>>)]
    IN ForLoop(body, [zeroes |-> 0, current_block_offset |-> lo,
                      ranges |-> <<>>], lo, hi).ranges

\* SelectAccelerator::create_small_super_block(lo..hi), the loop over the
\* bits: the ranges <<current_block_offset, next_block_offset>> of the blocks
\* it creates, in order.
CreateSmallSuperBlockRanges(acc, BIT, bv, lo, hi) ==
    LET body(st, j) ==
            LET zeroes == st.zeroes + CountedBit(BIT, bv, j)
                next_block_offset == j + 1
            IN IF zeroes # acc.zeros_per_block /\ j # hi - 1
               THEN [st EXCEPT !.zeroes = zeroes]
               ELSE [zeroes |-> 0, current_block_offset |-> next_block_offset,
                     ranges |-> Append(st.ranges,
                                       <<st.current_block_offset,
                                         next_block_offset>>)]
    IN ForLoop(body, [zeroes |-> 0, current_block_offset |-> lo,
                      ranges |-> <<>>], lo, hi).ranges

\* A large block that stores its positions relative to the block's start.
CreateBlockRelative(acc, BIT, bv, lo, hi) ==
    IF hi - lo >= acc.large_block_size
    THEN [kind |-> "LargeBlock",
          select_table |->
              [x \in 1..Len(CalcSelectTable(BIT, bv, lo, hi)) |->
                  CalcSelectTable(BIT, bv, lo, hi)[x] - lo]]
    ELSE [kind |-> "SmallBlock", offset |-> lo]

\* SelectAccelerator::create_small_super_block, the block pushed for the
\* range lo..hi: large with its positions, or small with its offset.
CreateBlock(acc, BIT, bv, lo, hi) ==
    IF hi - lo >= acc.large_block_size
    THEN [kind |-> "LargeBlock",
          select_table |-> CalcSelectTable(BIT, bv, lo, hi)]
    ELSE [kind |-> "SmallBlock", offset |-> lo]

\* SelectAccelerator::create_small_super_block(lo..hi).
CreateSmallSuperBlock(acc, BIT, bv, lo, hi) ==
    LET ranges == CreateSmallSuperBlockRanges(acc, BIT, bv, lo, hi)
    IN [kind |-> "SmallSuperBlock",
        blocks |-> [k \in 1..Len(ranges) |->
                       CreateBlock(acc, BIT, bv, ranges[k][1], ranges[k][2])]]

\* Super blocks of zeros_per_super_block bits each, whatever the bits are.
SelectInitRangesByLength(BIT, bv) ==
    LET size == ILog2(bv.len) * ILog2(bv.len)
    IN [k \in 1..DivCeil(bv.len, size) |->
            <<(k - 1) * size, Min(k * size, bv.len)>>]

\* SelectAccelerator::init, the loop over the bits: the ranges
\* <<current_super_block_offset, next_super_block_offset>> of the super
\* blocks it creates, in order.
SelectInitRanges(BIT, bv) ==
    LET zeros_per_super_block == ILog2(bv.len) * ILog2(bv.len)
        body(st, i) ==
            LET zeroes == st.zeroes + CountedBit(BIT, bv, i)
                next_super_block_offset == i + 1
            IN IF zeroes # zeros_per_super_block /\ i # bv.len - 1
               THEN [st EXCEPT !.zeroes = zeroes]
               ELSE [zeroes |-> 0,
                     current_super_block_offset |-> next_super_block_offset,
                     ranges |-> Append(st.ranges,
                                       <<st.current_super_block_offset,
                                         next_super_block_offset>>)]
    IN ForLoop(body, [zeroes |-> 0, current_super_block_offset |-> 0,
                      ranges |-> <<>>], 0, bv.len).ranges

\* SelectAccelerator::init, for a vector of len >= 1 (ilog2 panics on 0): the
\* parameters, and the super block created for each range of the loop.
SelectInit(BIT, bv) ==
    LET log == ILog2(bv.len)
        acc == [zeros_per_super_block |-> log * log,
                large_super_block_size |-> (log * log) * (log * log),
                large_block_size |-> log,
                zeros_per_block |-> ISqrt(log)]
        ranges == SelectInitRanges(BIT, bv)
    IN [super_blocks |->
            [k \in 1..Len(ranges) |->
                IF ranges[k][2] - ranges[k][1] >= acc.large_super_block_size
                THEN CreateLargeSuperBlock(BIT, bv, ranges[k][1], ranges[k][2])
                ELSE CreateSmallSuperBlock(acc, BIT, bv,
                                           ranges[k][1], ranges[k][2])],
        zeros_per_super_block |-> acc.zeros_per_super_block,
        zeros_per_block |-> acc.zeros_per_block,
        large_super_block_size |-> acc.large_super_block_size,
        large_block_size |-> acc.large_block_size]

\* select with a dense-block branch that returns the position in the window
\* and leaves out the block's offset.
SelectAccWindowOnly(acc, BIT, index, bv) ==
    IF acc.zeros_per_super_block = 0 THEN Panic
    ELSE
    LET super_block_index == index \div acc.zeros_per_super_block
        local == index % acc.zeros_per_super_block
    IN IF super_block_index >= Len(acc.super_blocks) THEN Panic
       ELSE LET sb == acc.super_blocks[super_block_index + 1]
            IN IF sb.kind = "LargeSuperBlock"
               THEN IF local >= Len(sb.select_table) THEN Panic
                    ELSE Ok(sb.select_table[local + 1])
               ELSE IF acc.zeros_per_block = 0 THEN Panic
               ELSE LET block_index == local \div acc.zeros_per_block
                        r == local % acc.zeros_per_block
                    IN IF block_index >= Len(sb.blocks) THEN Panic
                       ELSE LET blk == sb.blocks[block_index + 1]
                            IN IF blk.kind = "LargeBlock"
                               THEN IF r >= Len(blk.select_table) THEN Panic
                                    ELSE Ok(blk.select_table[r + 1])
                               ELSE LET word == AccessBlock(bv, blk.offset)
                                        pos == SelectWithTable(BIT, word.val, r)
                                    IN IF ~word.ok \/ pos = None THEN Panic
                                       ELSE Ok(pos[1])

\* SelectAccelerator::select, `index` 0-based.  A division by zero and an index
\* past the end of a vector panic, and so does expect() on None.
SelectAcc(acc, BIT, index, bv) ==
    IF acc.zeros_per_super_block = 0 THEN Panic
    ELSE
    LET super_block_index == index \div acc.zeros_per_super_block
        local == index % acc.zeros_per_super_block
    IN IF super_block_index >= Len(acc.super_blocks) THEN Panic
       ELSE LET sb == acc.super_blocks[super_block_index + 1]
            IN IF sb.kind = "LargeSuperBlock"
               THEN IF local >= Len(sb.select_table) THEN Panic
                    ELSE Ok(sb.select_table[local + 1])
               ELSE IF acc.zeros_per_block = 0 THEN Panic
               ELSE LET block_index == local \div acc.zeros_per_block
                        r == local % acc.zeros_per_block
                    IN IF block_index >= Len(sb.blocks) THEN Panic
                       ELSE LET blk == sb.blocks[block_index + 1]
                            IN IF blk.kind = "LargeBlock"
                               THEN IF r >= Len(blk.select_table) THEN Panic
                                    ELSE Ok(blk.select_table[r + 1])
                               ELSE LET word == AccessBlock(bv, blk.offset)
                                        pos == SelectWithTable(BIT, word.val, r)
                                    IN IF ~word.ok \/ pos = None THEN Panic
                                       ELSE Ok(blk.offset + pos[1])

\* BitVector::select, `index` 1-based.  index - 1 underflows for index = 0: a
\* panic in a debug build, and in a release build usize::MAX, which is past
\* the end of super_blocks (or divided by zeros_per_super_block = 0).
Select(sacc0, sacc1, bit, index, bv) ==
    LET sacc == IF bit THEN sacc1 ELSE sacc0
    IN IF sacc = None \/ index = 0 THEN Panic
       ELSE SelectAcc(sacc[1], bit, index - 1, bv)

----------------------------------------------------------------------------
\* The inputs.

Alphabet == {"0", "1"}

Strings(n) == [1..n -> Alphabet]

Repeat(p, n) == [i \in 1..n |-> p[((i - 1) % Len(p)) + 1]]

\* The characters of a malformed bit string: '0', '1' and one other.
Chars == Alphabet \cup {"2"}

\* The strings of length 1..MaxLen with a character other than '0' and '1'.
MalformedStrings ==
    {s \in UNION {[1..n -> Chars] : n \in 1..MaxLen} :
        \E i \in 1..Len(s) : s[i] \notin Alphabet}

Inputs ==
    UNION {Strings(n) : n \in 0..MaxLen}
    \cup {Repeat(p, n) : p \in UNION {Strings(k) : k \in 1..MaxPeriod},
                         n \in LongLens}
    \cup MalformedStrings

BV == [data |-> data, len |-> len]

\* The most recent call: its name, its arguments (lo and hi for count_ones)
\* and its outcome.
Call(op, bit, index, hi, ret) ==
    [op |-> op, bit |-> bit, index |-> index, hi |-> hi, ret |-> ret]

QueryOps == {"access", "access_block", "count_ones", "rank", "select"}

\* The caller can make its next call: the vector is loaded, the last call
\* did not panic (a panic ends the run) and, if it was a query, its value has
\* been taken, and main has not returned.
Ready ==
    /\ result.ret.ok
    /\ result.op \notin QueryOps \cup {"main"}
    /\ exit_status = None

\* The process at the entry of main, with BitVector::new()'s fields for the
\* vector that is not loaded yet.
Init ==
    /\ args_len \in ArgLens
    /\ stderr = <<>>
    /\ exit_status = None
    /\ files = {}
    /\ input = <<>>
    /\ data = <<>>
    /\ len = 0
    /\ rank_accelerator = None
    /\ select_accelerator_0 = None
    /\ select_accelerator_1 = None
    /\ result = Call("main", FALSE, 0, 0, Ok(0))

\* main up to the loaded vector: with fewer than three args it prints to
\* standard error and returns, and a process whose main returns exits with
\* status 0; else parse_input opens the input file and calls
\* BitVector::load_from_string(s) on its second line.
Main ==
    /\ result.op = "main"
    /\ exit_status = None
    /\ IF args_len < 3
       THEN /\ stderr' = Append(stderr, "Please provide an input and output path.")
            /\ exit_status' = Some(0)
            /\ UNCHANGED <<input, data, len, result, files>>
       ELSE /\ \E s \in Inputs :
                   /\ input' = s
                   /\ data' = LoadFromString(s).data
                   /\ len' = LoadFromString(s).len
            /\ files' = files \cup {"path_in"}
            /\ result' = Call("load_from_string", FALSE, 0, 0, Ok(0))
            /\ UNCHANGED <<stderr, exit_status>>
    /\ UNCHANGED <<args_len, rank_accelerator, select_accelerator_0,
                   select_accelerator_1>>

\* init_rank_structures dropping the select indexes.
InitRankStructuresDroppingSelect ==
    /\ Ready
    /\ len # 0
    /\ rank_accelerator' = Some(RankInit(BV))
    /\ select_accelerator_0' = None
    /\ select_accelerator_1' = None
    /\ result' = Call("init_rank_structures", FALSE, 0, 0, Ok(0))
    /\ UNCHANGED <<input, data, len>>
    /\ UNCHANGED process

\* BitVector::init_rank_structures.
InitRankStructures ==
    /\ Ready
    /\ IF len = 0
       THEN /\ result' = Call("init_rank_structures", FALSE, 0, 0, Panic)
            /\ UNCHANGED rank_accelerator
       ELSE /\ rank_accelerator' = Some(RankInit(BV))
            /\ result' = Call("init_rank_structures", FALSE, 0, 0, Ok(0))
    /\ UNCHANGED <<input, data, len, select_accelerator_0, select_accelerator_1>>
    /\ UNCHANGED process

\* BitVector::init_select_structures.
InitSelectStructures ==
    /\ Ready
    /\ IF len = 0
       THEN /\ result' = Call("init_select_structures", FALSE, 0, 0, Panic)
            /\ UNCHANGED <<select_accelerator_0, select_accelerator_1>>
       ELSE /\ select_accelerator_0' = Some(SelectInit(FALSE, BV))
            /\ select_accelerator_1' = Some(SelectInit(TRUE, BV))
            /\ result' = Call("init_select_structures", FALSE, 0, 0, Ok(0))
    /\ UNCHANGED <<input, data, len, rank_accelerator>>
    /\ UNCHANGED process

\* An init that keeps the entries of a rank index built before and appends
\* the newly computed ones to them.
InitAllAccumulating ==
    /\ Ready
    /\ IF len = 0
       THEN /\ result' = Call("init", FALSE, 0, 0, Panic)
            /\ UNCHANGED <<rank_accelerator, select_accelerator_0,
                           select_accelerator_1>>
       ELSE /\ rank_accelerator' =
                   IF rank_accelerator = None THEN Some(RankInit(BV))
                   ELSE Some([rank_accelerator[1] EXCEPT
                                 !.blocks = @ \o RankInit(BV).blocks,
                                 !.super_blocks = @ \o RankInit(BV).super_blocks])
            /\ select_accelerator_0' = Some(SelectInit(FALSE, BV))
            /\ select_accelerator_1' = Some(SelectInit(TRUE, BV))
            /\ result' = Call("init", FALSE, 0, 0, Ok(0))
    /\ UNCHANGED <<input, data, len>>
    /\ UNCHANGED process

\* BitVector::init: init_rank_structures, then init_select_structures.
InitAll ==
    /\ Ready
    /\ IF len = 0
       THEN /\ result' = Call("init", FALSE, 0, 0, Panic)
            /\ UNCHANGED <<rank_accelerator, select_accelerator_0,
                           select_accelerator_1>>
       ELSE /\ rank_accelerator' = Some(RankInit(BV))
            /\ select_accelerator_0' = Some(SelectInit(FALSE, BV))
            /\ select_accelerator_1' = Some(SelectInit(TRUE, BV))
            /\ result' = Call("init", FALSE, 0, 0, Ok(0))
    /\ UNCHANGED <<input, data, len>>
    /\ UNCHANGED process

\* The indices queried: the first ones, and len - 1, len and len + 1.
QueryIndices == {i \in 0..(len + 1) : i <= MaxIndex \/ i + 1 >= len}

\* A query that takes the rank index out of the vector (a lazily built index
\* consumed by the call).
QueryTakingRankIndex(call) ==
    /\ result' = call
    /\ rank_accelerator' = None
    /\ UNCHANGED <<input, data, len, select_accelerator_0, select_accelerator_1>>
    /\ UNCHANGED process

\* A query leaves the vector as it is; its outcome goes into `result`.
Query(call) ==
    /\ result' = call
    /\ UNCHANGED <<input, data, len, rank_accelerator,
                   select_accelerator_0, select_accelerator_1>>
    /\ UNCHANGED process

DoAccess ==
    /\ Ready
    /\ \E i \in QueryIndices :
        Query(Call("access", FALSE, i, 0, Access(BV, i)))

DoAccessBlock ==
    /\ Ready
    /\ \E i \in QueryIndices :
        Query(Call("access_block", FALSE, i, 0, AccessBlock(BV, i)))

DoCountOnes ==
    /\ Ready
    /\ \E lo \in QueryIndices :
        \E hi \in {h \in QueryIndices : lo <= h /\ h <= lo + MaxSpan /\ h <= len} :
            Query(Call("count_ones", FALSE, lo, hi, CountOnes(BV, lo, hi)))

DoRank ==
    /\ Ready
    /\ \E bit \in BOOLEAN, i \in QueryIndices :
        Query(Call("rank", bit, i, 0, Rank(rank_accelerator, bit, i, BV)))

DoSelect ==
    /\ Ready
    /\ \E bit \in BOOLEAN, j \in QueryIndices :
        Query(Call("select", bit, j, 0,
                   Select(select_accelerator_0, select_accelerator_1, bit, j, BV)))

\* The caller takes a query's value and goes on.
Return ==
    /\ result.ret.ok
    /\ result.op \in QueryOps
    /\ result' = Call("return", FALSE, 0, 0, Ok(0))
    /\ UNCHANGED <<input, data, len, rank_accelerator,
                   select_accelerator_0, select_accelerator_1>>
    /\ UNCHANGED process

\* The end of main: after init and the commands it creates the output file,
\* writes the results and returns.
WriteOutput ==
    /\ Ready
    /\ rank_accelerator # None
    /\ select_accelerator_0 # None
    /\ select_accelerator_1 # None
    /\ files' = files \cup {"path_out"}
    /\ exit_status' = Some(0)
    /\ UNCHANGED <<input, data, len, rank_accelerator, select_accelerator_0,
                   select_accelerator_1, result, args_len, stderr>>

Next ==
    \/ Main
    \/ InitRankStructures
    \/ InitSelectStructures
    \/ InitAll
    \/ DoAccess
    \/ DoAccessBlock
    \/ DoCountOnes
    \/ DoRank
    \/ DoSelect
    \/ Return
    \/ WriteOutput

Spec == Init /\ [][Next]_vars

----------------------------------------------------------------------------
\* select_with_table on its own: a pure function of (bit, data, index), called
\* on a word by a caller that holds nothing else.

\* The words: every word of MaxWordBits bits and, with bits set further up,
\* the single-bit words and the words with a single bit clear below bit 31
\* (the integers of the checker end at 2^31 - 1).
Words ==
    (0..(Pow2(MaxWordBits) - 1))
        \cup {Pow2(k) : k \in 0..30}
        \cup {(Pow2(30) - 1) + Pow2(30) - Pow2(k) : k \in 0..30}
        \cup {(Pow2(30) - 1) + Pow2(30)}

\* The ranks: every rank a word can hold, and the two past them.
TableRanks == 0..(SELECT_SCAN_BITS + 1)

\* The caller holds one word, in `data`, and no vector.
InitTable ==
    /\ args_len = 1
    /\ stderr = <<>>
    /\ exit_status = None
    /\ files = {}
    /\ input = <<>>
    /\ data \in {<<w>> : w \in Words}
    /\ len = 0
    /\ rank_accelerator = None
    /\ select_accelerator_0 = None
    /\ select_accelerator_1 = None
    /\ result = Call("new", FALSE, 0, 0, Ok(None))

\* select_with_table(bit, data, index); its Option goes into `result`.  The
\* function keeps nothing between calls, so one call on each word is every
\* call.
DoSelectWithTable ==
    /\ result.op = "new"
    /\ \E bit \in BOOLEAN, index \in TableRanks :
        result' = Call("select_with_table", bit, index, 0,
                       Ok(SelectWithTable(bit, data[1], index)))
    /\ UNCHANGED <<input, data, len, rank_accelerator,
                   select_accelerator_0, select_accelerator_1>>
    /\ UNCHANGED process

NextTable == DoSelectWithTable

SpecTable == InitTable /\ [][NextTable]_vars

----------------------------------------------------------------------------
\* What the input string says, independently of the packed words.

\* The bit at 0-based position p of the input.
InputBit(p) == IF input[p + 1] = "1" THEN 1 ELSE 0

BitValue(b) == IF b THEN 1 ELSE 0

\* The number of positions before i whose bit is b.
CountBefore(b, i) == Cardinality({p \in 0..(i - 1) : InputBit(p) = BitValue(b)})

\* The position of the j-th (1-based) occurrence of b.
Occurrence(b, j) ==
    CHOOSE p \in 0..(len - 1) : InputBit(p) = BitValue(b) /\ CountBefore(b, p) = j - 1

\* The input is a string of '0' and '1'.
WellFormed == input \notin MalformedStrings

RankReady == rank_accelerator # None
SelectReady == select_accelerator_0 # None /\ select_accelerator_1 # None

----------------------------------------------------------------------------
\* C1: after init_rank_structures, rank(true, i) for 0 <= i < n is the number
\* of 1-bits at positions 0..i-1 of the input, and rank(false, i) is i minus it.
C1_RankCountsPrefix ==
    (result.op = "rank" /\ WellFormed /\ RankReady /\ len >= 1 /\ result.index < len)
        => result.ret = Ok(CountBefore(result.bit, result.index))

\* C2: after init_select_structures, select(b, j) for 1 <= j <= (number of
\* bits equal to b) is the position of the j-th occurrence of b, for every
\* length n >= 1.
C2_SelectFindsOccurrence ==
    (/\ result.op = "select" /\ WellFormed /\ SelectReady /\ len >= 1
     /\ 1 <= result.index /\ result.index <= CountBefore(result.bit, len))
        => result.ret = Ok(Occurrence(result.bit, result.index))

\* C3: after init_rank_structures, rank(b, n) returns the total number of
\* bits equal to b.
C3_RankAtLenIsTotal ==
    (result.op = "rank" /\ WellFormed /\ RankReady /\ len >= 1 /\ result.index = len)
        => result.ret = Ok(CountBefore(result.bit, len))

\* C4: for 0 <= i <= n both rank(true, i) and rank(false, i) return a value
\* and the two add up to i.
C4_RanksAddUp ==
    (result.op = "rank" /\ WellFormed /\ RankReady /\ len >= 1 /\ result.index <= len)
        => LET other == Rank(rank_accelerator, ~result.bit, result.index, BV)
           IN /\ result.ret.ok
              /\ other.ok
              /\ result.ret.val + other.val = result.index

\* C5: on a fully initialised vector, whenever select(b, j) returns p,
\* rank(b, p) = j - 1 and access(p) = b.
C5_SelectRankAccessRoundTrip ==
    (result.op = "select" /\ WellFormed /\ RankReady /\ SelectReady /\ result.ret.ok)
        => /\ Rank(rank_accelerator, result.bit, result.ret.val, BV)
                = Ok(result.index - 1)
           /\ Access(BV, result.ret.val) = Ok(BitValue(result.bit))

\* C6: after load_from_string(s), access(i) for 0 <= i < n is 0 or 1, is 1
\* exactly when s[i] = '1', and is bit i mod W of word i / W.
C6_AccessReadsInput ==
    (result.op = "access" /\ result.index < len)
        => /\ result.ret.ok
           /\ result.ret.val \in {0, 1}
           /\ result.ret.val = 1 <=> input[result.index + 1] = "1"
           /\ result.ret.val =
                  (data[(result.index \div UNIT_SIZE_BITS) + 1]
                       \div Pow2(result.index % UNIT_SIZE_BITS)) % 2

\* A 1-bit read from a word after the first.
C6_Witness ==
    /\ result.op = "access" /\ result.index < len
    /\ result.index >= UNIT_SIZE_BITS
    /\ result.ret = Ok(1)

\* The OR over k in [0, min(W, n - i)) of access(i + k) << k.
WindowOfAccesses(i) ==
    ForLoop(LAMBDA w, k : BitOr(w, Access(BV, i + k).val * Pow2(k)),
            0, 0, Min(UNIT_SIZE_BITS, len - i))

\* C7: access_block(i) for 0 <= i < n is the W-bit window whose least
\* significant bit is bit i: the OR over k in [0, min(W, n - i)) of
\* access(i + k) << k.
C7_AccessBlockIsWindow ==
    (result.op = "access_block" /\ result.index < len)
        => result.ret = Ok(WindowOfAccesses(result.index))

\* A window that straddles two words and has a 1-bit from the upper word.
C7_Witness ==
    /\ result.op = "access_block" /\ result.index < len
    /\ result.index % UNIT_SIZE_BITS # 0
    /\ (result.index \div UNIT_SIZE_BITS) + 1 < Len(data)
    /\ result.ret.ok
    /\ result.ret.val >= Pow2(UNIT_SIZE_BITS - (result.index % UNIT_SIZE_BITS))

\* C8: count_ones(lo..hi) for 0 <= lo < hi <= n is the number of positions p
\* in [lo, hi) with access(p) = 1, whatever the length of the range.
C8_CountOnesCountsRange ==
    (/\ result.op = "count_ones" /\ WellFormed
     /\ result.index < result.hi /\ result.hi <= len)
        => result.ret =
               Ok(Cardinality({p \in result.index..(result.hi - 1) :
                                   Access(BV, p) = Ok(1)}))

\* C9: after init_rank_structures, count_ones(0..n) equals rank(true, n).
C9_CountOnesIsRankAtLen ==
    (/\ result.op = "count_ones" /\ WellFormed /\ RankReady /\ len >= 1
     /\ result.index = 0 /\ result.hi = len)
        => /\ result.ret.ok
           /\ result.ret = Rank(rank_accelerator, TRUE, len, BV)

\* C10: rank returns a value only with the rank index built, and select(b, .)
\* only with the select index for b built; the rank index is built only by
\* init_rank_structures and init, the select indexes only by
\* init_select_structures and init, and none exists after load_from_string;
\* access of a valid index returns a value whether or not any index is built.
C10_Lifecycle ==
    /\ rank_accelerator = None
    /\ select_accelerator_0 = None
    /\ select_accelerator_1 = None
    /\ [](result.op = "load_from_string" =>
              /\ rank_accelerator = None
              /\ select_accelerator_0 = None
              /\ select_accelerator_1 = None)
    /\ [](result.op = "rank" /\ result.ret.ok => rank_accelerator # None)
    /\ [](result.op = "select" /\ result.ret.ok =>
              IF result.bit THEN select_accelerator_1 # None
              ELSE select_accelerator_0 # None)
    /\ [][rank_accelerator' # rank_accelerator =>
              result'.op \in {"init_rank_structures", "init"}]_vars
    /\ [][(select_accelerator_0' # select_accelerator_0
             \/ select_accelerator_1' # select_accelerator_1) =>
              result'.op \in {"init_select_structures", "init"}]_vars
    /\ [](result.op = "access" /\ result.index < len => result.ret.ok)

\* select fails although init_rank_structures has built the rank index.
C10_Witness ==
    /\ result.op = "select" /\ ~result.ret.ok
    /\ result.index >= 1 /\ result.index <= CountBefore(result.bit, len)
    /\ rank_accelerator # None
    /\ select_accelerator_0 = None /\ select_accelerator_1 = None

\* C11: on a vector with the rank index built, rank(b, i) with i > n ends in
\* an error and returns no value.
C11_RankPastLenFails ==
    (result.op = "rank" /\ WellFormed /\ RankReady /\ result.index > len)
        => ~result.ret.ok

\* C12: on a vector with the select indexes built, select(b, j) with j = 0 or
\* j greater than the number of bits equal to b ends in an error, and select
\* never returns a position >= n.
C12_SelectPastCountFails ==
    (result.op = "select" /\ WellFormed /\ SelectReady)
        => /\ (result.index = 0 \/ result.index > CountBefore(result.bit, len))
                  => ~result.ret.ok
           /\ result.ret.ok => result.ret.val < len

\* C13: access(i) with i >= n ends in an error and returns no value.
C13_AccessPastLenFails ==
    (result.op = "access" /\ WellFormed /\ result.index >= len)
        => ~result.ret.ok

\* C14: load_from_string of a string with a character other than '0' and '1'
\* fails: it never yields a BitVector for such a string.
C14_MalformedInputRejected ==
    (result.op = "load_from_string" /\ input \in MalformedStrings)
        => ~result.ret.ok

\* C17: started with fewer than two path arguments, the program prints a
\* diagnostic on standard error and terminates with a non-success exit
\* status, without reading or writing any file.
C17_MissingArgsExitFailure ==
    (args_len < 3 /\ exit_status # None)
        => /\ stderr # <<>>
           /\ exit_status # Some(0)
           /\ files = {}

\* What the call recorded in `result` returns on the vector as it is now.
Recomputed ==
    CASE result.op = "access" -> Access(BV, result.index)
      [] result.op = "access_block" -> AccessBlock(BV, result.index)
      [] result.op = "count_ones" -> CountOnes(BV, result.index, result.hi)
      [] result.op = "rank" ->
             Rank(rank_accelerator, result.bit, result.index, BV)
      [] result.op = "select" ->
             Select(select_accelerator_0, select_accelerator_1,
                    result.bit, result.index, BV)

C16_InitLeavesStorage ==
    /\ [][result'.op \in {"init_rank_structures", "init_select_structures", "init"}
              => UNCHANGED <<data, len>>]_vars
    /\ [](result.op \in {"init_rank_structures", "init_select_structures", "init"}
              => BV = LoadFromString(input))
    /\ [][result'.op = "init_rank_structures"
              => UNCHANGED <<select_accelerator_0, select_accelerator_1>>]_vars
    /\ [][result'.op = "init_select_structures"
              => UNCHANGED rank_accelerator]_vars

\* init_rank_structures has run on a vector whose select indexes were built
\* before, and they are still there.
C16_Witness ==
    /\ result.op = "init_rank_structures" /\ result.ret.ok
    /\ select_accelerator_0 # None /\ select_accelerator_1 # None
    /\ rank_accelerator # None
    /\ len > UNIT_SIZE_BITS

\* The most recent call built the rank index.
RankJustBuilt ==
    /\ result.op \in {"init_rank_structures", "init"}
    /\ result.ret.ok
    /\ WellFormed

\* C18: after init_rank_structures on a vector of length n >= 1, with
\* B = max(1, floor(floor(log2 n) / 2)) and S = B * B, super_blocks has
\* ceil(n / S) entries and super_blocks[s] is the number of 1-bits at the
\* positions [0, min((s + 1) * S, n)).
C18_SuperBlocksArePrefixCounts ==
    (RankJustBuilt /\ len >= 1)
        => LET acc == rank_accelerator[1]
               B == Max(1, ILog2(len) \div 2)
               S == B * B
           IN /\ acc.block_size = B
              /\ acc.super_block_size = S
              /\ Len(acc.super_blocks) = DivCeil(len, S)
              /\ \A k \in 0..(Len(acc.super_blocks) - 1) :
                     acc.super_blocks[k + 1]
                         = CountBefore(TRUE, Min((k + 1) * S, len))

\* The number of 1-bits of the input at the positions [lo, hi).
OnesIn(lo, hi) == Cardinality({p \in lo..(hi - 1) : InputBit(p) = 1})

\* C19: after init_rank_structures on a vector of length n >= 1, blocks has
\* ceil(n / B) entries, and the entry at index k is the number of 1-bits from
\* the start of block k's super block, floor(k / B) * S, to the end of block
\* k, clipped to n.
C19_BlocksAreSuperBlockPrefixCounts ==
    (RankJustBuilt /\ len >= 1)
        => LET acc == rank_accelerator[1]
               B == acc.block_size
               S == acc.super_block_size
           IN /\ Len(acc.blocks) = DivCeil(len, B)
              /\ \A k \in 0..(Len(acc.blocks) - 1) :
                     acc.blocks[k + 1]
                         = OnesIn((k \div B) * S, Min((k + 1) * B, len))

\* A rank index whose last super block is cut short by the end of the vector,
\* with a count carried from one block of a super block into the next.
C19_Witness ==
    /\ RankJustBuilt
    /\ rank_accelerator[1].block_size >= 2
    /\ len % rank_accelerator[1].super_block_size # 0
    /\ \E k \in 1..(Len(rank_accelerator[1].blocks) - 1) :
           /\ k % rank_accelerator[1].block_size # 0
           /\ rank_accelerator[1].blocks[k] >= 1
           /\ rank_accelerator[1].blocks[k + 1] > rank_accelerator[1].blocks[k]

\* The number of bits equal to b of the input at the positions [lo, hi).
CountIn(b, lo, hi) ==
    Cardinality({p \in lo..(hi - 1) : InputBit(p) = BitValue(b)})

\* The most recent call built the select indexes.
SelectJustBuilt ==
    /\ result.op \in {"init_select_structures", "init"}
    /\ result.ret.ok
    /\ WellFormed

\* What C20 says of the super blocks of the select index for b.
SuperBlocksPartition(b, acc) ==
    LET ranges == SelectInitRanges(b, BV)
        z_super == ILog2(len) * ILog2(len)
        last == Len(ranges)
    IN /\ acc.zeros_per_super_block = z_super
       /\ Len(acc.super_blocks) = last
       /\ last >= 1
       /\ ranges[1][1] = 0
       /\ ranges[last][2] = len
       /\ \A k \in 1..last : ranges[k][1] < ranges[k][2]
       /\ \A k \in 1..(last - 1) :
              /\ ranges[k + 1][1] = ranges[k][2]
              /\ CountIn(b, ranges[k][1], ranges[k][2]) = z_super
              /\ ranges[k][2] - 1 = Occurrence(b, z_super * k)
       /\ CountIn(b, ranges[last][1], ranges[last][2]) <= z_super
       /\ \A k \in 1..last :
              acc.super_blocks[k].kind = "LargeSuperBlock"
                  => acc.super_blocks[k].select_table
                         = CalcSelectTable(b, BV, ranges[k][1], ranges[k][2])

\* C20: after SelectAccelerator<b>::init on a vector of length n >= 2, the
\* super blocks are consecutive ranges that cover [0, n) without gap or
\* overlap; each but the last holds exactly z_super = floor(log2 n)^2
\* occurrences of b and ends at the (z_super * (s + 1))-th occurrence; the
\* last holds at most z_super.
C20_SelectSuperBlocksPartition ==
    (SelectJustBuilt /\ len >= 2)
        => /\ SuperBlocksPartition(FALSE, select_accelerator_0[1])
           /\ SuperBlocksPartition(TRUE, select_accelerator_1[1])

\* The index for the 1-bits has three super blocks or more, the last one
\* short of z_super 1-bits, over a vector that also has 0-bits.
C20_Witness ==
    /\ SelectJustBuilt /\ len >= 2
    /\ Len(select_accelerator_1[1].super_blocks) >= 3
    /\ CountBefore(TRUE, len) % select_accelerator_1[1].zeros_per_super_block # 0
    /\ CountBefore(FALSE, len) >= 1

\* The ranges of the blocks of super block k of the select index acc for b.
BlockRanges(b, acc, k) ==
    CreateSmallSuperBlockRanges(acc, b, BV, SelectInitRanges(b, BV)[k][1],
                                SelectInitRanges(b, BV)[k][2])

\* z_block = floor(sqrt(floor(log2 n))).
ZBlock == ISqrt(ILog2(len))

\* What C21 says of the select index acc for b: only the final block of the
\* final super block may hold another number of b-bits than z_block.
BlocksHoldZBlock(b, acc) ==
    \A k \in 1..Len(acc.super_blocks) :
        acc.super_blocks[k].kind = "SmallSuperBlock"
            => LET ranges == BlockRanges(b, acc, k)
               IN /\ Len(acc.super_blocks[k].blocks) = Len(ranges)
                  /\ \A x \in 1..Len(ranges) :
                         (k = Len(acc.super_blocks) /\ x = Len(ranges))
                         \/ CountIn(b, ranges[x][1], ranges[x][2]) = ZBlock

\* C21 as claimed: after SelectAccelerator<b>::init, every block of every
\* dense super block holds exactly z_block occurrences of b, except possibly
\* the final block of the final super block.
C21_BlocksHoldZBlock ==
    (SelectJustBuilt /\ len >= 1)
        => /\ BlocksHoldZBlock(FALSE, select_accelerator_0[1])
           /\ BlocksHoldZBlock(TRUE, select_accelerator_1[1])

\* The amended statement for the select index acc for b: in every dense
\* super block each block but the final one holds z_block b-bits, and the
\* final one holds at most z_block.
BlocksHoldZBlockButFinal(b, acc) ==
    /\ acc.zeros_per_block = ZBlock
    /\ \A k \in 1..Len(acc.super_blocks) :
        acc.super_blocks[k].kind = "SmallSuperBlock"
            => LET ranges == BlockRanges(b, acc, k)
               IN /\ Len(acc.super_blocks[k].blocks) = Len(ranges)
                  /\ \A x \in 1..(Len(ranges) - 1) :
                         CountIn(b, ranges[x][1], ranges[x][2]) = ZBlock
                  /\ CountIn(b, ranges[Len(ranges)][1], ranges[Len(ranges)][2])
                         <= ZBlock

\* C21 amended: after SelectAccelerator<b>::init, every block of every dense
\* super block holds exactly z_block occurrences of b, except possibly the
\* final block of each super block, which holds at most z_block.
C21_BlocksHoldZBlockButFinal ==
    (SelectJustBuilt /\ len >= 1)
        => /\ BlocksHoldZBlockButFinal(FALSE, select_accelerator_0[1])
           /\ BlocksHoldZBlockButFinal(TRUE, select_accelerator_1[1])

\* The index for the 1-bits has a dense super block that is not the last and
\* whose final block holds fewer than z_block 1-bits.
C21_Witness ==
    /\ SelectJustBuilt
    /\ Len(select_accelerator_1[1].super_blocks) >= 2
    /\ select_accelerator_1[1].super_blocks[1].kind = "SmallSuperBlock"
    /\ LET ranges == BlockRanges(TRUE, select_accelerator_1[1], 1)
       IN /\ Len(ranges) >= 2
          /\ CountIn(TRUE, ranges[Len(ranges)][1], ranges[Len(ranges)][2])
                 < ZBlock

\* The table t lists, in strictly increasing order, exactly the positions of
\* [lo, hi) whose input bit is b.
TableIs(t, b, lo, hi) ==
    /\ \A x \in 1..(Len(t) - 1) : t[x] < t[x + 1]
    /\ {t[x] : x \in 1..Len(t)}
           = {p \in lo..(hi - 1) : InputBit(p) = BitValue(b)}

\* What C22 says of the select index acc for b.
PositionTablesExact(b, acc) ==
    \A k \in 1..Len(acc.super_blocks) :
        LET sb == acc.super_blocks[k]
            sr == SelectInitRanges(b, BV)[k]
        IN IF sb.kind = "LargeSuperBlock"
           THEN TableIs(sb.select_table, b, sr[1], sr[2])
           ELSE \A x \in 1..Len(sb.blocks) :
                    sb.blocks[x].kind = "LargeBlock"
                        => TableIs(sb.blocks[x].select_table, b,
                                   BlockRanges(b, acc, k)[x][1],
                                   BlockRanges(b, acc, k)[x][2])

\* C22: after SelectAccelerator<b>::init, the position table of every sparse
\* super block and of every sparse block holds exactly the global indices p
\* of its bit range with bit p equal to b, in strictly increasing order.
C22_PositionTablesExact ==
    (SelectJustBuilt /\ len >= 1)
        => /\ PositionTablesExact(FALSE, select_accelerator_0[1])
           /\ PositionTablesExact(TRUE, select_accelerator_1[1])

\* The index for the 1-bits has a sparse block that does not start at
\* position 0 and lists two positions or more.
C22_Witness ==
    /\ SelectJustBuilt
    /\ \E k \in 1..Len(select_accelerator_1[1].super_blocks) :
           /\ select_accelerator_1[1].super_blocks[k].kind = "SmallSuperBlock"
           /\ \E x \in 2..Len(select_accelerator_1[1].super_blocks[k].blocks) :
                  LET blk == select_accelerator_1[1].super_blocks[k].blocks[x]
                  IN /\ blk.kind = "LargeBlock"
                     /\ Len(blk.select_table) >= 2

\* The x-th (0-based) position of [lo, hi) whose input bit is b, relative
\* to lo.
OccurrenceIn(b, lo, hi, x) ==
    CHOOSE q \in 0..(hi - lo - 1) :
        InputBit(lo + q) = BitValue(b) /\ CountIn(b, lo, lo + q) = x

\* What C23 says of the select index acc for b.
DenseBlocksInWindow(b, acc) ==
    /\ acc.large_block_size = ILog2(len)
    /\ acc.large_block_size <= UNIT_SIZE_BITS
    /\ \A k \in 1..Len(acc.super_blocks) :
        acc.super_blocks[k].kind = "SmallSuperBlock"
            => \A ranges \in {BlockRanges(b, acc, k)} :
               \A x \in 1..Len(acc.super_blocks[k].blocks) :
                  LET blk == acc.super_blocks[k].blocks[x]
                      lo == ranges[x][1]
                      hi == ranges[x][2]
                  IN blk.kind = "SmallBlock"
                         => /\ blk.offset = lo
                            /\ hi - lo < acc.large_block_size
                            /\ AccessBlock(BV, blk.offset).ok
                            /\ \A r \in 0..(CountIn(b, lo, hi) - 1) :
                                   SelectWithTable(b, AccessBlock(BV, blk.offset).val, r)
                                       = Some(OccurrenceIn(b, lo, hi, r))

\* The select index that answers the select call recorded in `result`.
AnsweringIndex ==
    IF result.bit THEN select_accelerator_1[1] ELSE select_accelerator_0[1]

\* The (1-based) super block, the block in it, and the rank in the block that
\* select(b, result.index) looks up.
AnsweringSuperBlock ==
    ((result.index - 1) \div AnsweringIndex.zeros_per_super_block) + 1
AnsweringLocal == (result.index - 1) % AnsweringIndex.zeros_per_super_block
AnsweringBlock == (AnsweringLocal \div AnsweringIndex.zeros_per_block) + 1
AnsweringRank == AnsweringLocal % AnsweringIndex.zeros_per_block

\* The select call recorded in `result` asks for an existing occurrence and
\* is answered from a dense block.
AnsweredFromDenseBlock ==
    /\ result.op = "select" /\ WellFormed /\ SelectReady /\ len >= 2
    /\ 1 <= result.index /\ result.index <= CountBefore(result.bit, len)
    /\ AnsweringIndex.super_blocks[AnsweringSuperBlock].kind = "SmallSuperBlock"
    /\ AnsweringIndex.super_blocks[AnsweringSuperBlock].blocks[AnsweringBlock].kind
           = "SmallBlock"

\* C23: after SelectAccelerator<b>::init, every dense block stores the
\* global index of its first bit as offset and spans fewer than
\* L_block = floor(log2 n) <= W bits, so the window access_block(offset) holds
\* every occurrence of b of the block, and select_with_table on that window
\* gives the in-window position of the block's r-th occurrence; select's
\* dense-block branch returns offset plus that position.
C23_DenseBlocksInWindow ==
    /\ (SelectJustBuilt /\ len >= 1)
           => /\ DenseBlocksInWindow(FALSE, select_accelerator_0[1])
              /\ DenseBlocksInWindow(TRUE, select_accelerator_1[1])
    /\ AnsweredFromDenseBlock
           => \A range \in {BlockRanges(result.bit, AnsweringIndex,
                                        AnsweringSuperBlock)[AnsweringBlock]} :
                  result.ret
                      = Ok(range[1] + OccurrenceIn(result.bit, range[1], range[2],
                                                   AnsweringRank))

\* select has answered from a dense block that does not start at position 0
\* and holds the occurrence asked for as its second.
C23_Witness ==
    /\ AnsweredFromDenseBlock
    /\ result.ret.ok
    /\ AnsweringRank = 1
    /\ AnsweringIndex.super_blocks[AnsweringSuperBlock].blocks[AnsweringBlock].offset
           > 0

----------------------------------------------------------------------------
\* The word-level select primitive (under SpecTable).

\* The bit at position p of the word w < 2^31, positions counted from the
\* least significant bit; the positions from 31 up are clear.
WordBit(w, p) == IF p > 30 THEN 0 ELSE (w \div Pow2(p)) % 2

\* The positions of a 64-bit word w whose bit is b.
MatchingPositions(b, w) == {p \in 0..63 : WordBit(w, p) = BitValue(b)}

\* C24: for every 64-bit word w, each b and every 0-based r,
\* select_with_table(b, w, r) returns Some(p), p in [0, 64) the position of
\* the (r+1)-th bit of w equal to b counting from the least significant bit,
\* when w has at least r+1 such bits, and None exactly when it has fewer.
C24_SelectWithTableFindsBit ==
    result.op = "select_with_table"
        => \A m \in {MatchingPositions(result.bit, data[1])} :
              IF Cardinality(m) >= result.index + 1
              THEN \E p \in m :
                      /\ Cardinality({q \in m : q < p}) = result.index
                      /\ result.ret = Ok(Some(p))
              ELSE result.ret = Ok(None)

\* select_with_table has found the third or a later 1 bit of a word past the
\* word's low byte, after skipping 0 bits.
C24_Witness ==
    /\ result.op = "select_with_table"
    /\ result.bit
    /\ result.index >= 2
    /\ result.ret.val # None
    /\ result.ret.val[1] > 7
    /\ result.ret.val[1] > result.index

----------------------------------------------------------------------------
\* Re-initialisation.

InitOps == {"init_rank_structures", "init_select_structures", "init"}

\* The most recent call was an initialisation that returned, on a vector of
\* at least one bit.
InitReturned == result.op \in InitOps /\ result.ret.ok /\ len >= 1

\* The rank and select result that a single init on the loaded vector gives
\* for the call recorded in `result`.
AfterSingleInit ==
    \A bv \in {LoadFromString(input)} :
        CASE result.op = "rank" ->
                 result.ret = Rank(Some(RankInit(bv)), result.bit, result.index, bv)
          [] result.op = "select" ->
                 result.ret = Select(Some(SelectInit(FALSE, bv)),
                                     Some(SelectInit(TRUE, bv)),
                                     result.bit, result.index, bv)

\* C25: on a loaded vector of n >= 1 bits, after any non-empty sequence of
\* init_rank_structures, init_select_structures and init calls, in any order
\* and with any repetition, each index that was initialised at least once is
\* the one a single initialisation produces: an init on a vector that holds
\* the index leaves an identical index (it replaces, and never accumulates),
\* and every rank and select query on an initialised index returns what it
\* returns after a single init.
C25_ReinitIsIdempotent ==
    /\ [](InitReturned
              => /\ rank_accelerator # None
                     => rank_accelerator = Some(RankInit(LoadFromString(input)))
                 /\ select_accelerator_0 # None
                     => select_accelerator_0
                            = Some(SelectInit(FALSE, LoadFromString(input)))
                 /\ select_accelerator_1 # None
                     => select_accelerator_1
                            = Some(SelectInit(TRUE, LoadFromString(input))))
    /\ [][(result'.op \in InitOps /\ result'.ret.ok)
              => /\ rank_accelerator # None => rank_accelerator' = rank_accelerator
                 /\ select_accelerator_0 # None
                     => select_accelerator_0' = select_accelerator_0
                 /\ select_accelerator_1 # None
                     => select_accelerator_1' = select_accelerator_1]_vars
    /\ []((result.op = "rank" /\ rank_accelerator # None) => AfterSingleInit)
    /\ []((result.op = "select" /\ select_accelerator_0 # None
              /\ select_accelerator_1 # None) => AfterSingleInit)

\* init has returned on a vector of several words that holds all three
\* indexes, the select index for 1 with more than one super block.
C25_Witness ==
    /\ InitReturned
    /\ result.op = "init"
    /\ len > UNIT_SIZE_BITS
    /\ rank_accelerator # None
    /\ select_accelerator_0 # None
    /\ select_accelerator_1 # None
    /\ Len(select_accelerator_1[1].super_blocks) >= 2

====
